---- MODULE Spec2Model ----
(***************************************************************************)
(* Chat backend: the Record Store (PostgreSQL tables chat_records,         *)
(* conversations, messages), the Content Store (MongoDB collection         *)
(* chat_contents), the response cache put in front of the read endpoints,  *)
(* and the HTTP handlers of app/api/v1/endpoints that read and write them. *)
(*                                                                         *)
(* Identifiers (uuid4 values) are modelled as positive integers handed out *)
(* in increasing order; Null (0) stands for None / an absent field.        *)
(***************************************************************************)
EXTENDS Integers, Sequences, FiniteSets, TLC

VARIABLES
    chat_records,   \* table chat_records: chat_id -> row
    conversations,  \* table conversations: chat_id (primary key) -> row
    messages,       \* table messages: id -> row
    chat_contents,  \* collection chat_contents: documents in insertion order
    cache,          \* response cache: key -> cached response body
    next_chat_id,   \* the next uuid4 drawn for a ChatRecord
    next_msg_id,    \* the next uuid4 drawn for a Message
    inflight,       \* create_branch requests suspended at an await
    last,           \* the last completed request and its response
    users,          \* table users: rows in insertion order
    registering,    \* register_user / create_user requests between statements
    requests,       \* RateLimitMiddleware.requests: client ip -> timestamps
    current_time,   \* time.time(), in seconds
    handled         \* the requests dispatch has answered: [ip, time, status]

vars == <<chat_records, conversations, messages, chat_contents, cache,
          next_chat_id, next_msg_id, inflight, last,
          users, registering, requests, current_time, handled>>

\* The state of the users table and of the rate limiter, which the chat
\* endpoints leave alone; the state of the chat stores, which registration
\* and the rate limiter leave alone.
accounts == <<users, registering>>
limiter == <<requests, current_time, handled>>
chats == <<chat_records, conversations, messages, chat_contents, cache,
           next_chat_id, next_msg_id, inflight>>

----------------------------------------------------------------------------
\* Bounds of the model.

\* Number of ChatRecords ever created, in the main specification.
MaxChats == 2
\* Number of Messages ever created, in the main specification.
MaxMsgs == 1
\* The same, in the specification of branches of branches.
DeepMaxChats == 3
DeepMaxMsgs == 1
\* The same, in the specification of all endpoints with the cache.
ApiMaxChats == 2
ApiMaxMsgs == 1

\* Program constants.
Null == 0
Users == {"u1", "u2"}
ChatType == {"DIRECT", "GROUP", "CHANNEL"}


----------------------------------------------------------------------------
\* Helpers over functions and sequences.

Put(f, k, v) == [x \in (DOMAIN f) \cup {k} |-> IF x = k THEN v ELSE f[x]]
Drop(f, k) == [x \in (DOMAIN f) \ {k} |-> f[x]]
Range(s) == {s[i] : i \in DOMAIN s}


----------------------------------------------------------------------------
\* The Content Store: collection chat_contents (motor / MongoDB).  A document
\* is [chat_id, parent_chat_id, parent_message_id, qa_pairs]; a root chat's
\* document has no parent fields (Null here).  A QAPair is
\* [question, response, response_id, branches].

\* Index of the first document with chat_id c, 0 when there is none.
FirstIndex(coll, c) ==
    IF \E i \in DOMAIN coll : coll[i].chat_id = c
    THEN CHOOSE i \in DOMAIN coll :
            /\ coll[i].chat_id = c
            /\ \A j \in DOMAIN coll : coll[j].chat_id = c => i <= j
    ELSE 0

\* insert_one(doc)
InsertOne(coll, doc) == Append(coll, doc)

\* find_one({"chat_id": c}) finds a document
HasDocument(coll, c) == FirstIndex(coll, c) # 0

\* find_one({"chat_id": c}), when it finds one
FindOne(coll, c) == coll[FirstIndex(coll, c)]

\* PushQAPair with $position 0: the QAPair goes to the front of the list.
PushQAPairFront(coll, c, qa) ==
    LET i == FirstIndex(coll, c) IN
    IF i = 0 THEN coll
    ELSE [coll EXCEPT ![i].qa_pairs = <<qa>> \o @]

\* update_one({"chat_id": c}, {"$push": {"qa_pairs": qa}}): no document
\* matched is not an error.
PushQAPair(coll, c, qa) ==
    LET i == FirstIndex(coll, c) IN
    IF i = 0 THEN coll
    ELSE [coll EXCEPT ![i].qa_pairs = Append(@, qa)]

\* PushBranch written as a read of the list followed by a $set of the new
\* list: the update replaces what another request pushed in between.
PushBranchOverwrite(coll, c, m, b) ==
    LET i == FirstIndex(coll, c) IN
    IF i = 0 THEN coll
    ELSE LET qas == coll[i].qa_pairs IN
         [coll EXCEPT ![i].qa_pairs =
            [k \in DOMAIN qas |->
                IF qas[k].response_id = m
                THEN [qas[k] EXCEPT !.branches = <<b>>]
                ELSE qas[k]]]

\* The $push without its array_filters: b is pushed to the branches of
\* every QAPair of the document.
PushBranchEverywhere(coll, c, m, b) ==
    LET i == FirstIndex(coll, c) IN
    IF i = 0 THEN coll
    ELSE LET qas == coll[i].qa_pairs IN
         [coll EXCEPT ![i].qa_pairs =
            [k \in DOMAIN qas |-> [qas[k] EXCEPT !.branches = Append(@, b)]]]

\* update_one({"chat_id": c}, {"$push": {"qa_pairs.$[elem].branches": b}},
\*            array_filters=[{"elem.response_id": m}]): b is pushed to every
\* element the filter matches; no document or no element matched is not an
\* error, the collection is left as it is.
PushBranch(coll, c, m, b) ==
    LET i == FirstIndex(coll, c) IN
    IF i = 0 THEN coll
    ELSE LET qas == coll[i].qa_pairs IN
         [coll EXCEPT ![i].qa_pairs =
            [k \in DOMAIN qas |->
                IF qas[k].response_id = m
                THEN [qas[k] EXCEPT !.branches = Append(@, b)]
                ELSE qas[k]]]

\* delete_one({"chat_id": c})
DeleteOne(coll, c) ==
    LET i == FirstIndex(coll, c) IN
    IF i = 0 THEN coll
    ELSE SubSeq(coll, 1, i - 1) \o SubSeq(coll, i + 1, Len(coll))

\* find({"$or": [{"chat_id": c}, {"parent_chat_id": c}]}).to_list()
FindChatOrChildren(coll, c) ==
    SelectSeq(coll, LAMBDA d : d.chat_id = c \/ d.parent_chat_id = c)

----------------------------------------------------------------------------
\* The Record Store (SQLAlchemy session over PostgreSQL).

\* The ChatRecord query without its account_id filter.
AnyonesChat(c, u) == c \in DOMAIN chat_records

\* db.query(ChatRecord).filter(chat_id == c, account_id == u).first()
OwnedChat(c, u) ==
    c \in DOMAIN chat_records /\ chat_records[c].account_id = u

\* db.query(Conversation).filter(chat_id == c, account_id == u).first()
OwnedConversation(c, u) ==
    c \in DOMAIN conversations /\ conversations[c].account_id = u

\* The ChatRecord as the response schema renders it.
ChatOut(c) ==
    [chat_id |-> c,
     account_id |-> chat_records[c].account_id,
     chat_type |-> chat_records[c].chat_type,
     name |-> chat_records[c].name,
     active |-> chat_records[c].active]

\* The Messages of conversation c.
MessagesOf(c) == {m \in DOMAIN messages : messages[m].conversation_id = c}

----------------------------------------------------------------------------
\* Requests and responses.

\* The chats of user u.
ChatsOf(u) == {c \in DOMAIN chat_records : chat_records[c].account_id = u}

NoBody == <<>>

Response(op, u, c, m, status, body) ==
    [op |-> op, user |-> u, chat_id |-> c, message_id |-> m,
     status |-> status, body |-> body]

Init ==
    /\ chat_records = <<>>
    /\ conversations = <<>>
    /\ messages = <<>>
    /\ chat_contents = <<>>
    /\ cache = <<>>
    /\ next_chat_id = 1
    /\ next_msg_id = 1
    /\ inflight = {}
    /\ last = Response("startup", "u1", Null, Null, 200, NoBody)
    /\ users = <<>>
    /\ registering = {}
    /\ requests = <<>>
    /\ current_time = 0
    /\ handled = <<>>

----------------------------------------------------------------------------
\* chats.py

\* POST /chats/create-chat
create_chat(u, name, t, a) ==
    /\ LET c == next_chat_id
           row == [account_id |-> u, chat_type |-> t, name |-> name, active |-> a]
       IN
       /\ chat_records' = Put(chat_records, c, row)
       /\ conversations' = Put(conversations, c,
                               [account_id |-> u, name |-> name, deleted |-> FALSE])
       /\ chat_contents' = InsertOne(chat_contents,
                               [chat_id |-> c, parent_chat_id |-> Null,
                                parent_message_id |-> Null, qa_pairs |-> <<>>])
       /\ next_chat_id' = c + 1
       /\ last' = Response("create_chat", u, c, Null, 201, [chat_id |-> c] @@ row)
    /\ UNCHANGED <<messages, cache, next_msg_id, inflight>>
    /\ UNCHANGED <<accounts, limiter>>

\* A name field the request body sets to null (ChatRecordUpdate.name is
\* Optional[str]); no name has length 0 (min_length = 1).
NullName == <<>>

\* update_chat writing every field of ChatRecordUpdate, given or not: a
\* name left out is written as null, which the NOT NULL column refuses; an
\* active left out is written as false.
update_chat_writes_unset(u, c, patch) ==
    /\ IF ~OwnedChat(c, u)
       THEN /\ last' = Response("update_chat", u, c, Null, 404, NoBody)
            /\ UNCHANGED chat_records
       ELSE IF "name" \notin DOMAIN patch \/ patch.name = NullName
       THEN /\ last' = Response("update_chat", u, c, Null, 500, NoBody)
            /\ UNCHANGED chat_records
       ELSE LET row == [chat_records[c] EXCEPT
                           !.name = patch.name,
                           !.active = IF "active" \in DOMAIN patch
                                      THEN patch.active ELSE FALSE]
            IN
            /\ chat_records' = [chat_records EXCEPT ![c] = row]
            /\ last' = Response("update_chat", u, c, Null, 200, [chat_id |-> c] @@ row)
    /\ UNCHANGED <<conversations, messages, chat_contents, cache,
                   next_chat_id, next_msg_id, inflight>>
    /\ UNCHANGED <<accounts, limiter>>

\* PUT /chats/{chat_id}; patch holds the fields the request body sets
\* (chat_in.dict(exclude_unset=True)).  A name set to null is written to
\* the NOT NULL column name: the commit raises and nothing is changed.
update_chat(u, c, patch) ==
    /\ IF ~OwnedChat(c, u)
       THEN /\ last' = Response("update_chat", u, c, Null, 404, NoBody)
            /\ UNCHANGED chat_records
       ELSE IF "name" \in DOMAIN patch /\ patch.name = NullName
       THEN /\ last' = Response("update_chat", u, c, Null, 500, NoBody)
            /\ UNCHANGED chat_records
       ELSE LET row == [f \in DOMAIN chat_records[c] |->
                           IF f \in DOMAIN patch THEN patch[f]
                           ELSE chat_records[c][f]]
            IN
            /\ chat_records' = [chat_records EXCEPT ![c] = row]
            /\ last' = Response("update_chat", u, c, Null, 200, [chat_id |-> c] @@ row)
    /\ UNCHANGED <<conversations, messages, chat_contents, cache,
                   next_chat_id, next_msg_id, inflight>>
    /\ UNCHANGED <<accounts, limiter>>

\* delete_chat without lines 213-218: the Conversation is left behind.
delete_chat_keeps_conversation(u, c) ==
    /\ IF ~OwnedChat(c, u)
       THEN /\ last' = Response("delete_chat", u, c, Null, 404, NoBody)
            /\ UNCHANGED <<chat_records, chat_contents>>
       ELSE /\ chat_records' = Drop(chat_records, c)
            /\ chat_contents' = DeleteOne(chat_contents, c)
            /\ last' = Response("delete_chat", u, c, Null, 200, NoBody)
    /\ UNCHANGED <<conversations, messages, cache, next_chat_id, next_msg_id,
                   inflight>>
    /\ UNCHANGED <<accounts, limiter>>

\* DELETE /chats/delete-chat/{chat_id}.  Deleting a Conversation that has
\* Messages makes the session set their conversation_id to NULL (the
\* relationship Conversation.messages has no delete cascade), which the
\* NOT NULL column refuses: the commit raises, nothing is deleted, and the
\* Content Store delete is not reached.
delete_chat(u, c) ==
    /\ IF ~OwnedChat(c, u)
       THEN /\ last' = Response("delete_chat", u, c, Null, 404, NoBody)
            /\ UNCHANGED <<chat_records, conversations, chat_contents>>
       ELSE IF c \in DOMAIN conversations /\ MessagesOf(c) # {}
       THEN /\ last' = Response("delete_chat", u, c, Null, 500, NoBody)
            /\ UNCHANGED <<chat_records, conversations, chat_contents>>
       ELSE /\ conversations' = Drop(conversations, c)
            /\ chat_records' = Drop(chat_records, c)
            /\ chat_contents' = DeleteOne(chat_contents, c)
            /\ last' = Response("delete_chat", u, c, Null, 200, NoBody)
    /\ UNCHANGED <<messages, cache, next_chat_id, next_msg_id, inflight>>
    /\ UNCHANGED <<accounts, limiter>>

----------------------------------------------------------------------------
\* conversations.py

\* POST /conversations/.  The INSERT is refused when chat_id is the primary
\* key of an existing Conversation or references no ChatRecord.
create_conversation(u, c, name) ==
    /\ IF c \in DOMAIN chat_records /\ c \notin DOMAIN conversations
       THEN /\ conversations' = Put(conversations, c,
                                   [account_id |-> u, name |-> name, deleted |-> FALSE])
            /\ last' = Response("create_conversation", u, c, Null, 201, NoBody)
       ELSE /\ last' = Response("create_conversation", u, c, Null, 500, NoBody)
            /\ UNCHANGED conversations
    /\ UNCHANGED <<chat_records, messages, chat_contents, cache,
                   next_chat_id, next_msg_id, inflight>>
    /\ UNCHANGED <<accounts, limiter>>

\* delete_conversation with db.delete(conversation) in place of the flag.
delete_conversation_hard(u, c) ==
    /\ IF ~OwnedConversation(c, u)
       THEN /\ last' = Response("delete_conversation", u, c, Null, 404, NoBody)
            /\ UNCHANGED conversations
       ELSE /\ conversations' = Drop(conversations, c)
            /\ last' = Response("delete_conversation", u, c, Null, 200, NoBody)
    /\ UNCHANGED <<chat_records, messages, chat_contents, cache,
                   next_chat_id, next_msg_id, inflight>>
    /\ UNCHANGED <<accounts, limiter>>

\* DELETE /conversations/{conversation_id}
delete_conversation(u, c) ==
    /\ IF ~OwnedConversation(c, u)
       THEN /\ last' = Response("delete_conversation", u, c, Null, 404, NoBody)
            /\ UNCHANGED conversations
       ELSE /\ conversations' = [conversations EXCEPT ![c].deleted = TRUE]
            /\ last' = Response("delete_conversation", u, c, Null, 200, NoBody)
    /\ UNCHANGED <<chat_records, messages, chat_contents, cache,
                   next_chat_id, next_msg_id, inflight>>
    /\ UNCHANGED <<accounts, limiter>>

----------------------------------------------------------------------------
\* messages.py

\* POST /messages/add-message
add_message(u, c, content) ==
    /\ IF ~OwnedConversation(c, u)
       THEN /\ last' = Response("add_message", u, c, Null, 404, NoBody)
            /\ UNCHANGED <<messages, chat_contents, next_msg_id>>
       ELSE LET m == next_msg_id IN
            /\ messages' = Put(messages, m,
                               [conversation_id |-> c, user_id |-> u, content |-> content])
            /\ chat_contents' = PushQAPair(chat_contents, c,
                                   [question |-> content, response |-> Null,
                                    response_id |-> m, branches |-> <<>>])
            /\ next_msg_id' = m + 1
            /\ last' = Response("add_message", u, c, m, 201, NoBody)
    /\ UNCHANGED <<chat_records, conversations, cache, next_chat_id, inflight>>
    /\ UNCHANGED <<accounts, limiter>>

----------------------------------------------------------------------------
\* branches.py

\* The ChatRecord, Conversation and ContentDocument create_branch builds for
\* a branch b of parent p at message m.
BranchRowDefaults(u, p) ==
    [account_id |-> u, chat_type |-> "DIRECT",
     name |-> <<"Branch from ">> \o chat_records[p].name, active |-> TRUE]

BranchRow(u, p) ==
    [account_id |-> u, chat_type |-> chat_records[p].chat_type,
     name |-> <<"Branch from ">> \o chat_records[p].name, active |-> FALSE]

BranchConversation(u, p) ==
    [account_id |-> u, name |-> BranchRow(u, p).name, deleted |-> FALSE]

\* The branch document without its parent_message_id.
BranchContentNoMessage(b, p, m) ==
    [chat_id |-> b, parent_chat_id |-> p, parent_message_id |-> Null,
     qa_pairs |-> <<>>]

BranchContent(b, p, m) ==
    [chat_id |-> b, parent_chat_id |-> p, parent_message_id |-> m,
     qa_pairs |-> <<>>]

\* POST /branches/create-branch, run without interruption
create_branch(u, p, m) ==
    /\ IF ~OwnedChat(p, u)
       THEN /\ last' = Response("create_branch", u, p, m, 404, NoBody)
            /\ UNCHANGED <<chat_records, conversations, chat_contents, next_chat_id>>
       ELSE LET b == next_chat_id IN
            /\ chat_records' = Put(chat_records, b, BranchRow(u, p))
            /\ conversations' = Put(conversations, b, BranchConversation(u, p))
            /\ chat_contents' = PushBranch(
                   InsertOne(chat_contents, BranchContent(b, p, m)), p, m, b)
            /\ next_chat_id' = b + 1
            /\ last' = Response("create_branch", u, p, m, 201,
                                [chat_id |-> b] @@ BranchRow(u, p))
    /\ UNCHANGED <<messages, cache, next_msg_id, inflight>>
    /\ UNCHANGED <<accounts, limiter>>

\* set_active_branch that also clears the flag of the caller's other chats.
set_active_branch_exclusive(u, b) ==
    /\ IF ~OwnedChat(b, u)
       THEN /\ last' = Response("set_active_branch", u, b, Null, 404, NoBody)
            /\ UNCHANGED chat_records
       ELSE /\ chat_records' = [c \in DOMAIN chat_records |->
                    IF chat_records[c].account_id = u
                    THEN [chat_records[c] EXCEPT !.active = (c = b)]
                    ELSE chat_records[c]]
            /\ last' = Response("set_active_branch", u, b, Null, 200,
                                [ChatOut(b) EXCEPT !.active = TRUE])
    /\ UNCHANGED <<conversations, messages, chat_contents, cache,
                   next_chat_id, next_msg_id, inflight>>
    /\ UNCHANGED <<accounts, limiter>>

\* GET /branches/set-active-branch/{branch_id}
set_active_branch(u, b) ==
    /\ IF ~OwnedChat(b, u)
       THEN /\ last' = Response("set_active_branch", u, b, Null, 404, NoBody)
            /\ UNCHANGED chat_records
       ELSE /\ chat_records' = [chat_records EXCEPT ![b].active = TRUE]
            /\ last' = Response("set_active_branch", u, b, Null, 200,
                                [ChatOut(b) EXCEPT !.active = TRUE])
    /\ UNCHANGED <<conversations, messages, chat_contents, cache,
                   next_chat_id, next_msg_id, inflight>>
    /\ UNCHANGED <<accounts, limiter>>

\* create_branch as the event loop runs it: the handler gives way to other
\* requests at each await, so its Record Store work up to the flush, its two
\* Content Store calls and its commit are separate steps.  A request in
\* flight is [id, user, parent, message, known, branch, row, pc, status]:
\* row is the ChatRecord held in its uncommitted transaction, known tells
\* whether the message was a response_id of the parent's document when the
\* request began.

ResponseIds(coll, c) ==
    IF HasDocument(coll, c)
    THEN {FindOne(coll, c).qa_pairs[k].response_id :
            k \in DOMAIN FindOne(coll, c).qa_pairs}
    ELSE {}

\* lines 44-72: the parent query, the new rows added and flushed
branch_begin(id, u, p, m) ==
    /\ \A q \in inflight : q.id # id
    /\ IF ~OwnedChat(p, u)
       THEN /\ inflight' = inflight \cup
                   {[id |-> id, user |-> u, parent |-> p, message |-> m,
                     known |-> FALSE, branch |-> Null,
                     row |-> <<>>, pc |-> "done", status |-> 404]}
            /\ last' = Response("create_branch", u, p, m, 404, NoBody)
            /\ UNCHANGED next_chat_id
       ELSE /\ inflight' = inflight \cup
                   {[id |-> id, user |-> u, parent |-> p, message |-> m,
                     known |-> m \in ResponseIds(chat_contents, p),
                     branch |-> next_chat_id,
                     row |-> BranchRow(u, p), pc |-> "insert", status |-> 0]}
            /\ next_chat_id' = next_chat_id + 1
            /\ UNCHANGED last
    /\ UNCHANGED <<chat_records, conversations, messages, chat_contents,
                   cache, next_msg_id>>
    /\ UNCHANGED <<accounts, limiter>>

\* line 81: await insert_one(branch_content)
branch_insert(q) ==
    /\ q \in inflight /\ q.pc = "insert"
    /\ chat_contents' = InsertOne(chat_contents,
                           BranchContent(q.branch, q.parent, q.message))
    /\ inflight' = (inflight \ {q}) \cup {[q EXCEPT !.pc = "push"]}
    /\ UNCHANGED <<chat_records, conversations, messages, cache,
                   next_chat_id, next_msg_id, last>>
    /\ UNCHANGED <<accounts, limiter>>

\* lines 84-88: await update_one(... $push ...), one atomic update of the
\* parent's document in the Content Store
branch_push(q) ==
    /\ q \in inflight /\ q.pc = "push"
    /\ chat_contents' = PushBranch(chat_contents, q.parent, q.message, q.branch)
    /\ inflight' = (inflight \ {q}) \cup {[q EXCEPT !.pc = "commit"]}
    /\ UNCHANGED <<chat_records, conversations, messages, cache,
                   next_chat_id, next_msg_id, last>>
    /\ UNCHANGED <<accounts, limiter>>

\* lines 90-92: commit, refresh, return
branch_commit(q) ==
    /\ q \in inflight /\ q.pc = "commit"
    /\ chat_records' = Put(chat_records, q.branch, q.row)
    /\ conversations' = Put(conversations, q.branch,
                            [account_id |-> q.user, name |-> q.row.name,
                             deleted |-> FALSE])
    /\ inflight' = (inflight \ {q}) \cup
                        {[q EXCEPT !.pc = "done", !.status = 201]}
    /\ last' = Response("create_branch", q.user, q.parent, q.message, 201,
                        [chat_id |-> q.branch] @@ q.row)
    /\ UNCHANGED <<messages, chat_contents, cache, next_chat_id, next_msg_id>>
    /\ UNCHANGED <<accounts, limiter>>

RECURSIVE Flatten(_)
\* branch_ids.extend(qa_pair["branches"]) over the qa_pairs
Flatten(qas) ==
    IF qas = <<>> THEN <<>> ELSE Head(qas).branches \o Flatten(Tail(qas))

\* The body of get_branches: [status, body], body the ChatRecords listed.
GetBranchesBody(u, c) ==
    IF ~OwnedChat(c, u) THEN [status |-> 404, body |-> NoBody]
    ELSE IF ~HasDocument(chat_contents, c) THEN [status |-> 200, body |-> {}]
    ELSE LET branch_ids == Range(Flatten(FindOne(chat_contents, c).qa_pairs)) IN
         [status |-> 200,
          body |-> {ChatOut(b) : b \in branch_ids \cap DOMAIN chat_records}]

\* The frames build_tree may nest before the interpreter raises
\* RecursionError (sys.getrecursionlimit() in the interpreter; any value
\* above the depth of the deepest acyclic tree gives the same results).
RecursionLimit == 4

NoTree == [kind |-> "none"]
Overflow == [kind |-> "overflow"]

\* content_map.get(chat_id, {}): the last fetched document with this chat_id
ContentOf(contents, c) ==
    LET idx == {i \in DOMAIN contents : contents[i].chat_id = c} IN
    IF idx = {} THEN [chat_id |-> c, parent_chat_id |-> Null,
                      parent_message_id |-> Null, qa_pairs |-> <<>>]
    ELSE contents[CHOOSE i \in idx : \A j \in idx : j <= i]

\* branch_ids: the chat_id and parent_chat_id of every fetched document
TreeBranchIds(contents) ==
    {contents[i].chat_id : i \in DOMAIN contents}
        \cup {contents[i].parent_chat_id :
                i \in {j \in DOMAIN contents : contents[j].parent_chat_id # Null}}

RECURSIVE BuildTree(_, _, _)
RECURSIVE BuildChildren(_, _, _, _)

\* for other_content in chat_contents[k..]: the children of chat c, in the
\* order of the fetched documents, as [raised, nodes].  A RecursionError
\* raised below passes up.
BuildChildren(c, contents, k, depth) ==
    IF k > Len(contents) THEN [raised |-> FALSE, nodes |-> <<>>]
    ELSE IF contents[k].parent_chat_id # c
    THEN BuildChildren(c, contents, k + 1, depth)
    ELSE LET child == BuildTree(contents[k].chat_id, contents, depth + 1) IN
         IF child.kind = "overflow" THEN [raised |-> TRUE, nodes |-> <<>>]
         ELSE LET rest == BuildChildren(c, contents, k + 1, depth) IN
              IF rest.raised \/ child.kind = "none" THEN rest
              ELSE [raised |-> FALSE, nodes |-> <<child>> \o rest.nodes]

\* build_tree(chat_id), called at nesting depth `depth`
BuildTree(c, contents, depth) ==
    IF depth > RecursionLimit THEN Overflow
    ELSE IF c \notin TreeBranchIds(contents) \cap DOMAIN chat_records THEN NoTree
    ELSE LET children == BuildChildren(c, contents, 1, depth) IN
         IF children.raised THEN Overflow
         ELSE [kind |-> "node",
               chat_id |-> c,
               name |-> chat_records[c].name,
               active |-> chat_records[c].active,
               chat_type |-> chat_records[c].chat_type,
               parent_message_id |-> ContentOf(contents, c).parent_message_id,
               children |-> children.nodes]

\* The body of get_branch_tree: [status, body].  RecursionError is not an
\* HTTPException: the application's handler for Exception answers 500.
GetBranchTreeBody(u, c) ==
    IF ~OwnedChat(c, u) THEN [status |-> 404, body |-> NoTree]
    ELSE LET tree == BuildTree(c, FindChatOrChildren(chat_contents, c), 1) IN
         IF tree.kind = "overflow" THEN [status |-> 500, body |-> NoTree]
         ELSE IF tree.kind = "none" THEN [status |-> 404, body |-> NoTree]
         ELSE [status |-> 200, body |-> tree]

----------------------------------------------------------------------------
\* The response cache (fastapi_cache, initialised in main.py with no
\* key_builder).  The library's default key is a hash of the endpoint
\* function's module and name and of the text of its keyword arguments:
\* chat_id, and the request's Session and User objects, which print as
\* their type and memory address.  r stands for that text of the request's
\* objects: two requests, of the same or of different users, may or may not
\* get the same one.

\* Number of distinct texts the objects of a request print as.
NumReprs == 1
\* Number of responses the cache holds at a time.
MaxCached == 1

Reprs == 1..NumReprs

CacheKey(func, c, r) == <<func, c, r>>

\* @cache(expire=300) around an endpoint whose body answers `result`: a
\* stored response is returned without running the body; a response the
\* body returns is stored, an HTTPException it raises is not.
Cached(func, u, c, r, result) ==
    LET key == CacheKey(func, c, r) IN
    IF key \in DOMAIN cache
    THEN /\ last' = Response(func, u, c, Null, 200, cache[key])
         /\ UNCHANGED cache
    ELSE /\ last' = Response(func, u, c, Null, result.status, result.body)
         /\ IF result.status = 200
            THEN /\ Cardinality(DOMAIN cache) < MaxCached
                 /\ cache' = Put(cache, key, result.body)
            ELSE UNCHANGED cache

\* The entry's 300 seconds have passed.
CacheExpire(key) ==
    /\ key \in DOMAIN cache
    /\ cache' = Drop(cache, key)
    /\ UNCHANGED <<chat_records, conversations, messages, chat_contents,
                   next_chat_id, next_msg_id, inflight, last>>
    /\ UNCHANGED <<accounts, limiter>>

\* The body of chats.get_chat
GetChatBody(u, c) ==
    IF ~OwnedChat(c, u) THEN [status |-> 404, body |-> NoBody]
    ELSE [status |-> 200, body |-> ChatOut(c)]

\* The body of conversations.get_conversation
GetConversationBody(u, c) ==
    IF ~(OwnedConversation(c, u) /\ ~conversations[c].deleted)
    THEN [status |-> 404, body |-> NoBody]
    ELSE [status |-> 200, body |-> [chat_id |-> c] @@ conversations[c]]

ReadOnly ==
    UNCHANGED <<chat_records, conversations, messages, chat_contents,
                next_chat_id, next_msg_id, inflight, accounts, limiter>>

\* GET /chats/{chat_id}
get_chat(u, c, r) ==
    Cached("chats.get_chat", u, c, r, GetChatBody(u, c)) /\ ReadOnly

\* The body of chats.get_chats (skip = 0, limit = 100, above the number of
\* chats of the model): the ChatRecords of the caller.
GetChatsBody(u) ==
    [status |-> 200, body |-> {ChatOut(c) : c \in ChatsOf(u)}]

\* GET /chats/ : the key has no chat_id in it.
get_chats(u, r) ==
    Cached("chats.get_chats", u, Null, r, GetChatsBody(u)) /\ ReadOnly

\* GET /conversations/{conversation_id}
get_conversation(u, c, r) ==
    Cached("conversations.get_conversation", u, c, r, GetConversationBody(u, c))
        /\ ReadOnly

\* GET /branches/get-branches/{chat_id}
get_branches(u, c, r) ==
    Cached("branches.get_branches", u, c, r, GetBranchesBody(u, c)) /\ ReadOnly

\* GET /branches/get-branch-tree/{chat_id}
get_branch_tree(u, c, r) ==
    Cached("branches.get_branch_tree", u, c, r, GetBranchTreeBody(u, c)) /\ ReadOnly

----------------------------------------------------------------------------
\* Specifications.

\* The bounds as guards: a request that would create the record numbered
\* above the bound is left out.
ChatBound(n, u, p) == OwnedChat(p, u) => next_chat_id <= n
MsgBound(n, u, c) == OwnedConversation(c, u) => next_msg_id <= n

\* The ids a request may name: those handed out so far, and a well-formed
\* uuid that was never handed out.
Unknown == Null - 1
ChatArgs == (1..(next_chat_id - 1)) \cup {Unknown}
MsgArgs == (1..(next_msg_id - 1)) \cup {Unknown}

\* The handlers that write to the two stores, each run from request to
\* response, called by the users on their own chats (create_conversation on
\* any chat id), with at most nc chats and nm messages created.
OwnWrites(nc, nm) ==
    \/ \E u \in Users :
            next_chat_id <= nc /\ create_chat(u, <<"root">>, "DIRECT", TRUE)
    \/ \E u \in Users : \E c \in ChatsOf(u) : delete_chat(u, c)
    \/ \E u \in Users, c \in ChatArgs : create_conversation(u, c, <<"root">>)
    \/ \E u \in Users : \E c \in ChatsOf(u) : delete_conversation(u, c)
    \/ \E u \in Users : \E c \in ChatsOf(u) :
            MsgBound(nm, u, c) /\ add_message(u, c, "hello")
    \/ \E u \in Users : \E p \in ChatsOf(u), m \in MsgArgs :
            ChatBound(nc, u, p) /\ create_branch(u, p, m)

\* Main specification.
Next == OwnWrites(MaxChats, MaxMsgs)

Spec == Init /\ [][Next]_vars

\* Branches of branches: the same handlers with room for a third chat.
NextDeep == OwnWrites(DeepMaxChats, DeepMaxMsgs)

SpecDeep == Init /\ [][NextDeep]_vars

\* Every endpoint, called by any user on any chat id, with the cache.
NextApi ==
    \/ \E u \in Users :
            next_chat_id <= ApiMaxChats /\ create_chat(u, <<"root">>, "DIRECT", TRUE)
    \/ \E u \in Users, c \in ChatArgs, a \in BOOLEAN :
            update_chat(u, c, [f \in {"active"} |-> a])
    \/ \E u \in Users, c \in ChatArgs : delete_chat(u, c)
    \/ \E u \in Users, c \in ChatArgs : delete_conversation(u, c)
    \/ \E u \in Users, c \in ChatArgs :
            MsgBound(ApiMaxMsgs, u, c) /\ add_message(u, c, "hello")
    \/ \E u \in Users, p \in ChatArgs, m \in MsgArgs :
            ChatBound(ApiMaxChats, u, p) /\ create_branch(u, p, m)
    \/ \E u \in Users, b \in ChatArgs : set_active_branch(u, b)
    \/ \E u \in Users, c \in ChatArgs, r \in Reprs : get_chat(u, c, r)
    \/ \E u \in Users, c \in ChatArgs, r \in Reprs : get_conversation(u, c, r)
    \/ \E u \in Users, c \in ChatArgs, r \in Reprs : get_branches(u, c, r)
    \/ \E u \in Users, c \in ChatArgs, r \in Reprs : get_branch_tree(u, c, r)
    \/ \E key \in DOMAIN cache : CacheExpire(key)

SpecApi == Init /\ [][NextApi]_vars

\* The write endpoints, called by any user on any chat id with every form
\* of request body, without the cache.
RecMaxChats == 2
RecMaxMsgs == 1

\* The bodies of update_chat requests: each of name and active set or left
\* out.
Patches ==
    {<<>>}
    \cup {[f \in {"name"} |-> n] : n \in {<<"renamed">>, NullName}}
    \cup {[f \in {"active"} |-> a] : a \in BOOLEAN}
    \cup {[name |-> <<"renamed">>, active |-> a] : a \in BOOLEAN}

NextRecords ==
    \/ \E u \in Users, t \in ChatType, a \in BOOLEAN :
            next_chat_id <= RecMaxChats /\ create_chat(u, <<"root">>, t, a)
    \/ \E u \in Users, c \in ChatArgs, patch \in Patches : update_chat(u, c, patch)
    \/ \E u \in Users, c \in ChatArgs : delete_chat(u, c)
    \/ \E u \in Users, c \in ChatArgs :
            MsgBound(RecMaxMsgs, u, c) /\ add_message(u, c, "hello")
    \/ \E u \in Users, p \in ChatArgs, m \in MsgArgs :
            ChatBound(RecMaxChats, u, p) /\ create_branch(u, p, m)
    \/ \E u \in Users, b \in ChatArgs : set_active_branch(u, b)

SpecRecords == Init /\ [][NextRecords]_vars

\* Chats, their branches and the active flag: room for a parent and two
\* sibling branches.
ActMaxChats == 3

NextActive ==
    \/ \E u \in Users, a \in BOOLEAN :
            next_chat_id <= ActMaxChats /\ create_chat(u, <<"root">>, "DIRECT", a)
    \/ \E u \in Users, p \in ChatArgs, m \in MsgArgs :
            ChatBound(ActMaxChats, u, p) /\ create_branch(u, p, m)
    \/ \E u \in Users, b \in ChatArgs : set_active_branch(u, b)

SpecActive == Init /\ [][NextActive]_vars

\* The endpoints of chats.py, called by any user on any chat id, with the
\* cache.
CacheMaxChats == 2

NextChats ==
    \/ \E u \in Users :
            next_chat_id <= CacheMaxChats /\ create_chat(u, <<"root">>, "DIRECT", TRUE)
    \/ \E u \in Users, c \in ChatArgs, a \in BOOLEAN :
            update_chat(u, c, [f \in {"active"} |-> a])
    \/ \E u \in Users, c \in ChatArgs : delete_chat(u, c)
    \/ \E u \in Users, c \in ChatArgs, r \in Reprs : get_chat(u, c, r)
    \/ \E u \in Users, r \in Reprs : get_chats(u, r)
    \/ \E key \in DOMAIN cache : CacheExpire(key)

SpecChats == Init /\ [][NextChats]_vars

\* Concurrent create_branch requests: the owners' create_branch calls on
\* their chats run as interleaved steps; requests are numbered in the
\* order they begin. MaxRequests is the number of requests.
MaxRequests == 2
ConcMaxChats == 1
ConcMaxMsgs == 1

NextConc ==
    \/ \E u \in Users :
            next_chat_id <= ConcMaxChats /\ create_chat(u, <<"root">>, "DIRECT", TRUE)
    \/ \E u \in Users : \E c \in ChatsOf(u) :
            MsgBound(ConcMaxMsgs, u, c) /\ add_message(u, c, "hello")
    \/ \E id \in {Cardinality(inflight) + 1} \cap (1..MaxRequests) :
        \E u \in Users, m \in MsgArgs : \E p \in ChatsOf(u) :
            branch_begin(id, u, p, m)
    \/ \E q \in inflight : branch_insert(q)
    \/ \E q \in inflight : branch_push(q)
    \/ \E q \in inflight : branch_commit(q)

SpecConc == Init /\ [][NextConc]_vars

\* get_branch_tree over the documents any writer of the chat_contents
\* collection may have left: every chat has a ChatRecord of u1 and a
\* document whose parent fields name any chat, itself and its own
\* descendants included.
TreeChats == 3

TreeDocs ==
    { [chat_id |-> c[1], parent_chat_id |-> c[2],
       parent_message_id |-> IF c[2] = Null THEN Null ELSE 1,
       qa_pairs |-> <<>>] : c \in (1..TreeChats) \X (0..TreeChats) }

InitTree ==
    /\ chat_records = [c \in 1..TreeChats |->
            [account_id |-> "u1", chat_type |-> "DIRECT",
             name |-> <<"root">>, active |-> TRUE]]
    /\ conversations = [c \in 1..TreeChats |->
            [account_id |-> "u1", name |-> <<"root">>, deleted |-> FALSE]]
    /\ messages = <<>>
    /\ chat_contents \in {s \in [1..TreeChats -> TreeDocs] :
                            \A i \in 1..TreeChats : s[i].chat_id = i}
    /\ cache = <<>>
    /\ next_chat_id = TreeChats + 1
    /\ next_msg_id = 1
    /\ inflight = {}
    /\ last = Response("startup", "u1", Null, Null, 200, NoBody)
    /\ users = <<>>
    /\ registering = {}
    /\ requests = <<>>
    /\ current_time = 0
    /\ handled = <<>>

NextTree ==
    \/ \E u \in Users, c \in 1..TreeChats, r \in Reprs : get_branch_tree(u, c, r)
    \/ \E key \in DOMAIN cache : CacheExpire(key)

SpecTree == InitTree /\ [][NextTree]_vars

----------------------------------------------------------------------------
\* Properties.

\* The QAPairs of the document of chat c.
QAPairsOf(c) ==
    IF HasDocument(chat_contents, c) THEN FindOne(chat_contents, c).qa_pairs
    ELSE <<>>

\* A request completed in this step.
Responded == last' # last

\* C1: create_branch called with a message id that is the response_id of no
\* QAPair of the parent's existing document is refused, and leaves the
\* ChatRecords and Conversations as they were.
C1_UnknownMessageRefused ==
    [][ ( /\ Responded
          /\ last'.op = "create_branch"
          /\ OwnedChat(last'.chat_id, last'.user)
          /\ HasDocument(chat_contents, last'.chat_id)
          /\ last'.message_id \notin ResponseIds(chat_contents, last'.chat_id) )
        => ( /\ last'.status # 201
             /\ chat_records' = chat_records
             /\ conversations' = conversations ) ]_vars

\* C7: in every state, the branches of every QAPair are exactly the chats
\* that have a ChatRecord and whose document names the QAPair's response_id
\* as parent_message_id.
C7_BranchesExact ==
    \A i \in DOMAIN chat_contents :
        \A k \in DOMAIN chat_contents[i].qa_pairs :
            LET qa == chat_contents[i].qa_pairs[k] IN
            Range(qa.branches) =
                {b \in DOMAIN chat_records :
                    /\ HasDocument(chat_contents, b)
                    /\ FindOne(chat_contents, b).parent_message_id = qa.response_id}

\* C8: in every state, the chats that have a ChatRecord are the chats that
\* have a Conversation (chat_id is the key of both tables, so one each).
C8_RecordIffConversation == DOMAIN chat_records = DOMAIN conversations

\* C8 witness: a branch has been created and a chat deleted, and a chat
\* with its Conversation remains.
C8_Witness ==
    /\ last.op = "delete_chat" /\ last.status = 200
    /\ chat_records # <<>>
    /\ next_chat_id > 2
    /\ \E i \in DOMAIN chat_contents : chat_contents[i].parent_chat_id # Null

\* The parent_chat_id of the document of chat c, Null when there is none.
ParentOf(c) ==
    IF HasDocument(chat_contents, c)
    THEN FindOne(chat_contents, c).parent_chat_id
    ELSE Null

RECURSIVE Reaches(_, _, _)
\* Following at most n parent_chat_id links from chat d leads to root.
Reaches(d, root, n) ==
    /\ n > 0
    /\ ParentOf(d) # Null
    /\ (ParentOf(d) = root \/ Reaches(ParentOf(d), root, n - 1))

RECURSIVE TreeEdges(_)
\* The <<parent, child>> pairs of a tree get_branch_tree returned.
TreeEdges(tree) ==
    {<<tree.chat_id, tree.children[i].chat_id>> : i \in DOMAIN tree.children}
        \cup UNION {TreeEdges(tree.children[i]) : i \in DOMAIN tree.children}

\* C4: when two documents name each other as parent, get_branch_tree on
\* either chat ends, and fails with a data-integrity error: neither a tree
\* nor the internal error of an exhausted recursion.
C4_CycleIsIntegrityError ==
    ( /\ last.op = "branches.get_branch_tree"
      /\ OwnedChat(last.chat_id, last.user)
      /\ \E b \in DOMAIN chat_records :
            /\ b # last.chat_id
            /\ ParentOf(last.chat_id) = b
            /\ ParentOf(b) = last.chat_id )
    => last.status \notin {200, 500}

\* C6: the tree get_branch_tree builds for a root holds every chat that
\* reaches the root over parent_chat_id links, at any depth, as a child of
\* its own parent.
C6_TreeIsClosure ==
    \A u \in Users : \A root \in ChatsOf(u) :
        GetBranchTreeBody(u, root).status = 200 =>
            \A d \in DOMAIN chat_records :
                Reaches(d, root, next_chat_id) =>
                    <<ParentOf(d), d>> \in TreeEdges(GetBranchTreeBody(u, root).body)

\* The branches list of the QAPair of message m in the document of chat p.
BranchesAt(p, m) ==
    UNION {Range(QAPairsOf(p)[k].branches) :
            k \in {j \in DOMAIN QAPairsOf(p) : QAPairsOf(p)[j].response_id = m}}

\* Position of chat b's document in the collection, of b in a list.
DocIndex(b) == FirstIndex(chat_contents, b)
ListIndex(list, b) == CHOOSE i \in DOMAIN list : list[i] = b

\* C10: two create_branch requests on the same parent and message, a
\* response_id of the parent's document when each began, have both
\* answered 201 once both are done, have created two different
\* ChatRecords, and both new chat_ids are in the QAPair's branches.
C10_BothBranchesKept ==
    \A q1 \in inflight : \A q2 \in inflight \ {q1} :
        ( /\ q1.pc = "done" /\ q2.pc = "done"
          /\ q1.known /\ q2.known
          /\ q1.parent = q2.parent /\ q1.message = q2.message )
        => ( /\ q1.status = 201 /\ q2.status = 201
             /\ q1.branch # q2.branch
             /\ {q1.branch, q2.branch} \subseteq DOMAIN chat_records
             /\ {q1.branch, q2.branch} \subseteq BranchesAt(q1.parent, q1.message) )

\* C10 witness: both requests are done and their store calls interleaved:
\* the first to insert its document was the second to push its id.
C10_Witness ==
    \E q1 \in inflight : \E q2 \in inflight \ {q1} :
        /\ q1.pc = "done" /\ q2.pc = "done"
        /\ q1.known /\ q2.known
        /\ q1.parent = q2.parent /\ q1.message = q2.message
        /\ DocIndex(q1.branch) < DocIndex(q2.branch)
        /\ \E k \in DOMAIN QAPairsOf(q1.parent) :
            LET list == QAPairsOf(q1.parent)[k].branches IN
            /\ {q1.branch, q2.branch} \subseteq Range(list)
            /\ ListIndex(list, q2.branch) < ListIndex(list, q1.branch)

\* The chat_ids of the ChatRecords a get_branches response lists.
ListedIds(body) == {x.chat_id : x \in body}

\* C2: get_branches(P) by the caller right after the caller's successful
\* create_branch(P, m), m a response_id of P's document, answers with a
\* list that contains the new branch, whatever the cache holds.
C2_NewBranchListed ==
    [][ ( /\ last.op = "create_branch" /\ last.status = 201
          /\ last.message_id \in ResponseIds(chat_contents, last.chat_id)
          /\ Responded
          /\ last'.op = "branches.get_branches"
          /\ last'.user = last.user
          /\ last'.chat_id = last.chat_id )
        => ( /\ last'.status = 200
             /\ last.body.chat_id \in ListedIds(last'.body) ) ]_vars

\* C3: get_branches on the parent of B by the caller right after the
\* caller's successful set_active_branch(B), B listed in the branches of a
\* QAPair of its parent, reports B with active = true, whatever the cache
\* holds.
C3_ActivationListed ==
    [][ ( /\ last.op = "set_active_branch" /\ last.status = 200
          /\ ParentOf(last.chat_id) # Null
          /\ last.chat_id \in Range(Flatten(QAPairsOf(ParentOf(last.chat_id))))
          /\ Responded
          /\ last'.op = "branches.get_branches"
          /\ last'.user = last.user
          /\ last'.chat_id = ParentOf(last.chat_id) )
        => ( /\ last'.status = 200
             /\ \E x \in last'.body : x.chat_id = last.chat_id /\ x.active ) ]_vars

\* C5: a tree get_branch_tree(A) returns has root A, and every branch B
\* created from (A, m) that still has its ChatRecord is a child of the root
\* with parent_message_id = m.
C5_BranchIsChild ==
    ( /\ last.op = "branches.get_branch_tree" /\ last.status = 200
      /\ OwnedChat(last.chat_id, last.user) )
    => ( /\ last.body.chat_id = last.chat_id
         /\ \A b \in DOMAIN chat_records :
                ParentOf(b) = last.chat_id =>
                    \E i \in DOMAIN last.body.children :
                        /\ last.body.children[i].chat_id = b
                        /\ last.body.children[i].parent_message_id
                               = FindOne(chat_contents, b).parent_message_id )

\* The endpoints that name a chat id.
ChatOps ==
    {"chats.get_chat", "update_chat", "delete_chat", "create_branch",
     "branches.get_branches", "set_active_branch", "branches.get_branch_tree",
     "add_message", "conversations.get_conversation", "delete_conversation"}

\* C9: a request of any of these endpoints on a chat whose ChatRecord
\* belongs to another user is answered 404, as for an id of no chat, and
\* changes neither store.
C9_NotOwnerNotFound ==
    [][ ( /\ Responded
          /\ last'.op \in ChatOps
          /\ last'.chat_id \in DOMAIN chat_records
          /\ chat_records[last'.chat_id].account_id # last'.user )
        => ( /\ last'.status = 404
             /\ UNCHANGED <<chat_records, conversations, messages, chat_contents>> ) ]_vars

\* C11: the caller's get_chat or get_chats right after the caller's own
\* successful create_chat, update_chat or delete_chat answers from the
\* stores as the write left them: get_chat gives the chat as written (404
\* once deleted), get_chats gives the caller's present ChatRecords,
\* whatever the cache holds.
C11_OwnWriteVisible ==
    [][ ( /\ \/ last.op = "create_chat" /\ last.status = 201
             \/ last.op = "update_chat" /\ last.status = 200
             \/ last.op = "delete_chat" /\ last.status = 200
          /\ Responded
          /\ last'.user = last.user )
        => ( /\ ( last'.op = "chats.get_chat" /\ last'.chat_id = last.chat_id )
                    => ( /\ last'.status = GetChatBody(last.user, last.chat_id).status
                         /\ last'.body = GetChatBody(last.user, last.chat_id).body )
             /\ last'.op = "chats.get_chats"
                    => ( /\ last'.status = 200
                         /\ last'.body = GetChatsBody(last.user).body ) ) ]_vars

\* C12: the ChatRecord a successful create_branch on parent P has just
\* created belongs to the caller, has P's chat_type, the name "Branch from "
\* followed by P's name, active = false, and a Conversation with its
\* chat_id.
C12_BranchRecord ==
    ( last.op = "create_branch" /\ last.status = 201 )
    => LET b == last.body.chat_id
           p == last.chat_id
       IN /\ b \in DOMAIN chat_records
          /\ chat_records[b].account_id = last.user
          /\ chat_records[b].chat_type = chat_records[p].chat_type
          /\ chat_records[b].name = <<"Branch from ">> \o chat_records[p].name
          /\ chat_records[b].active = FALSE
          /\ b \in DOMAIN conversations

\* C12 witness: a branch was just created from a renamed, active parent
\* whose chat_type is not the first of the enumeration.
C12_Witness ==
    /\ last.op = "create_branch" /\ last.status = 201
    /\ chat_records[last.chat_id].chat_type = "CHANNEL"
    /\ chat_records[last.chat_id].name = <<"renamed">>
    /\ chat_records[last.chat_id].active
    /\ last.body.chat_id \in DOMAIN chat_records

C16_OnlyTargetActivated ==
    [][ ( /\ Responded
          /\ last'.op = "set_active_branch"
          /\ last'.chat_id \in DOMAIN chat_records
          /\ chat_records[last'.chat_id].account_id = last'.user )
        => ( /\ last'.status = 200
             /\ chat_records' = [chat_records EXCEPT ![last'.chat_id].active = TRUE]
             /\ [chat_records' EXCEPT ![last'.chat_id].active = TRUE] = chat_records' ) ]_vars

\* C16 witness: a branch was just activated; its parent and a sibling
\* branch, active before, are still active.
C16_Witness ==
    /\ last.op = "set_active_branch" /\ last.status = 200
    /\ last.chat_id \in DOMAIN chat_records
    /\ ParentOf(last.chat_id) \in DOMAIN chat_records
    /\ chat_records[ParentOf(last.chat_id)].active
    /\ chat_records[last.chat_id].active
    /\ \E s \in DOMAIN chat_records \ {last.chat_id} :
            /\ ParentOf(s) = ParentOf(last.chat_id)
            /\ chat_records[s].active

DocIds(coll) == {coll[i].chat_id : i \in DOMAIN coll}

\* C13: a document create_chat inserts has neither parent field, a
\* document create_branch inserts has both, the parent chat and the
\* message of the request, and no step changes the parent fields of a
\* document that stays in the collection.
C13_ParentFieldsFixed ==
    [][ /\ \A c \in DocIds(chat_contents') \ DocIds(chat_contents) :
                LET doc == FindOne(chat_contents', c) IN
                /\ last'.op \in {"create_chat", "create_branch"}
                /\ last'.op = "create_chat" =>
                        /\ doc.parent_chat_id = Null
                        /\ doc.parent_message_id = Null
                /\ last'.op = "create_branch" =>
                        /\ doc.parent_chat_id # Null
                        /\ doc.parent_message_id # Null
                        /\ doc.parent_chat_id = last'.chat_id
                        /\ doc.parent_message_id = last'.message_id
        /\ \A c \in DocIds(chat_contents') \cap DocIds(chat_contents) :
                /\ FindOne(chat_contents', c).parent_chat_id
                        = FindOne(chat_contents, c).parent_chat_id
                /\ FindOne(chat_contents', c).parent_message_id
                        = FindOne(chat_contents, c).parent_message_id ]_vars

\* C13 witness: a message was just added to a root chat that has a branch:
\* the root's document has no parent field, the branch's document has both.
C13_Witness ==
    /\ last.op = "add_message" /\ last.status = 201
    /\ HasDocument(chat_contents, last.chat_id)
    /\ FindOne(chat_contents, last.chat_id).parent_chat_id = Null
    /\ FindOne(chat_contents, last.chat_id).parent_message_id = Null
    /\ FindOne(chat_contents, last.chat_id).qa_pairs # <<>>
    /\ \E i \in DOMAIN chat_contents :
            /\ chat_contents[i].parent_chat_id = last.chat_id
            /\ chat_contents[i].parent_message_id # Null

\* C14: delete_chat by the owner answers 200 and removes the ChatRecord
\* and its Conversation together, whether the chat has Messages or not;
\* delete_chat on any other chat id answers 404 and removes nothing.
C14_DeleteChatAtomic ==
    [][ ( Responded /\ last'.op = "delete_chat" )
        => IF /\ last'.chat_id \in DOMAIN chat_records
              /\ chat_records[last'.chat_id].account_id = last'.user
           THEN /\ last'.status = 200
                /\ last'.chat_id \notin DOMAIN chat_records'
                /\ last'.chat_id \notin DOMAIN conversations'
           ELSE /\ last'.status = 404
                /\ UNCHANGED <<chat_records, conversations, messages,
                               chat_contents>> ]_vars

\* C18: a get_branch_tree(root) answered 200 carries a tree whose root node
\* is root, and a get_branch_tree(root) by a caller with no ChatRecord root
\* is answered 404.
C18_RootOrNotFound ==
    [][ ( Responded /\ last'.op = "branches.get_branch_tree" )
        => /\ last'.status = 200 => last'.body.chat_id = last'.chat_id
           /\ ~( /\ last'.chat_id \in DOMAIN chat_records
                 /\ chat_records[last'.chat_id].account_id = last'.user )
                => last'.status = 404 ]_vars

\* The Messages present before and after a step are the same rows.
MessagesKept ==
    \A m \in DOMAIN messages \cap DOMAIN messages' : messages'[m] = messages[m]

C20_CacheKeptPerCaller ==
    /\ ( last.op = "chats.get_chats" /\ last.status = 200 )
            => \A x \in last.body : x.account_id = last.user
    /\ ( last.op = "chats.get_chat" /\ last.status = 200 )
            => last.body.account_id = last.user

\* C21: a delete_conversation step changes nothing but the deleted flag of
\* the Conversation it names, which it sets to true; and a step after
\* which a Conversation row is gone is a successful delete_chat on that
\* chat.
C21_SoftDeleteOnly ==
    [][ /\ ( Responded /\ last'.op = "delete_conversation" )
            => /\ UNCHANGED <<chat_records, messages, chat_contents>>
               /\ DOMAIN conversations' = DOMAIN conversations
               /\ \A c \in DOMAIN conversations :
                    IF c = last'.chat_id /\ last'.status = 200
                    THEN conversations'[c] = [conversations[c] EXCEPT !.deleted = TRUE]
                    ELSE conversations'[c] = conversations[c]
        /\ \A c \in DOMAIN conversations \ DOMAIN conversations' :
                /\ last'.op = "delete_chat" /\ last'.status = 200
                /\ last'.chat_id = c ]_vars

\* C21 witness: a Conversation with a Message was just soft-deleted: its
\* row, its ChatRecord, its Message and its document are all there.
C21_Witness ==
    /\ last.op = "delete_conversation" /\ last.status = 200
    /\ last.chat_id \in DOMAIN conversations
    /\ conversations[last.chat_id].deleted
    /\ last.chat_id \in DOMAIN chat_records
    /\ MessagesOf(last.chat_id) # {}
    /\ QAPairsOf(last.chat_id) # <<>>

\* ---------------------------------------------------------------------
\* User registration: auth.register_user and users.create_user.
\* register_user is a plain def, which FastAPI runs in a thread pool, and
\* each of its three database statements sees what is committed when it
\* runs; so a request is modelled as three steps, and the steps of
\* different requests interleave.  The columns users.username and
\* users.email are unique: an INSERT that repeats either raises
\* IntegrityError at commit, which the global handler answers with 500.

MaxRegistrations == 2

Usernames == {"alice", "bob"}
Emails == {"a@x.org", "b@x.org"}
Endpoints == {"register_user", "create_user"}

UserRow(username, email) == [username |-> username, email |-> email]

\* db.query(User).filter(User.<column> == value).first() is not None
UserExists(column, value) ==
    \E k \in DOMAIN users : users[k][column] = value

\* register_user asks for the email first, create_user for the username.
CheckOrder(endpoint) ==
    IF endpoint = "register_user" THEN <<"email", "username">>
                                  ELSE <<"username", "email">>

Created(endpoint) == IF endpoint = "register_user" THEN 200 ELSE 201

RegistrationReply(r, status) ==
    Response(r.endpoint, r.username, Null, Null, status,
             UserRow(r.username, r.email))

\* The first query of a new request.
register_begin(endpoint, username, email) ==
    /\ Cardinality(registering) + Len(users) < MaxRegistrations
    /\ LET id == CHOOSE i \in 1..MaxRegistrations :
                    /\ \A r \in registering : r.id # i
                    /\ \A j \in 1..(i - 1) : \E r \in registering : r.id = j
           r == [id |-> id, endpoint |-> endpoint, username |-> username,
                 email |-> email, pc |-> "second"]
       IN  IF UserExists(CheckOrder(endpoint)[1], r[CheckOrder(endpoint)[1]])
           THEN /\ last' = RegistrationReply(r, 400)
                /\ UNCHANGED registering
           ELSE /\ registering' = registering \cup {r}
                /\ UNCHANGED last
    /\ UNCHANGED <<users, chats, limiter>>

\* The second query.
register_second(r) ==
    /\ r \in registering /\ r.pc = "second"
    /\ IF UserExists(CheckOrder(r.endpoint)[2], r[CheckOrder(r.endpoint)[2]])
       THEN /\ last' = RegistrationReply(r, 400)
            /\ registering' = registering \ {r}
       ELSE /\ registering' = (registering \ {r}) \cup {[r EXCEPT !.pc = "commit"]}
            /\ UNCHANGED last
    /\ UNCHANGED <<users, chats, limiter>>

\* db.add(user); db.commit(): the unique constraints decide.
register_commit(r) ==
    /\ r \in registering /\ r.pc = "commit"
    /\ registering' = registering \ {r}
    /\ IF UserExists("username", r.username) \/ UserExists("email", r.email)
       THEN /\ last' = RegistrationReply(r, 500)
            /\ UNCHANGED users
       ELSE /\ users' = Append(users, UserRow(r.username, r.email))
            /\ last' = RegistrationReply(r, Created(r.endpoint))
    /\ UNCHANGED <<chats, limiter>>

NextAccounts ==
    \/ \E endpoint \in Endpoints, username \in Usernames, email \in Emails :
            register_begin(endpoint, username, email)
    \/ \E r \in registering : register_second(r)
    \/ \E r \in registering : register_commit(r)

SpecAccounts == Init /\ [][NextAccounts]_vars

\* C22: no two Users have the same username or the same email, and a
\* register_user or create_user request is answered with 200/201 (a User
\* was created) or with 400 (the username or email is taken), never with
\* an internal error.
C22_DuplicateIsBadRequest ==
    /\ \A j, k \in DOMAIN users :
            ( users[j].username = users[k].username
              \/ users[j].email = users[k].email ) => j = k
    /\ last.op \in Endpoints => last.status \in {200, 201, 400}

\* ---------------------------------------------------------------------
\* Messages: chats with room for a second message; add_message and
\* create_branch called by any user on any chat id.

MsgMaxChats == 2
MsgMaxMsgs == 2

NextMessages ==
    \/ \E u \in Users :
            next_chat_id <= MsgMaxChats /\ create_chat(u, <<"root">>, "DIRECT", TRUE)
    \/ \E u \in Users : \E c \in ChatsOf(u) : delete_chat(u, c)
    \/ \E u \in Users, c \in ChatArgs :
            MsgBound(MsgMaxMsgs, u, c) /\ add_message(u, c, "hello")
    \/ \E u \in Users, p \in ChatArgs, m \in MsgArgs :
            ChatBound(MsgMaxChats, u, p) /\ create_branch(u, p, m)

SpecMessages == Init /\ [][NextMessages]_vars

\* C23: a successful add_message creates one Message and leaves the
\* document of its chat with the old qa_pairs, in their order, followed by
\* one new QAPair: the question of the request, response_id the new
\* Message's id, response null and branches empty.  Every other document
\* stays as it was.
C23_AppendsOneQAPair ==
    [][ ( Responded /\ last'.op = "add_message" /\ last'.status = 201 )
        => LET c == last'.chat_id
               m == last'.message_id
           IN /\ m \in DOMAIN messages' \ DOMAIN messages
              /\ messages'[m].conversation_id = c
              /\ HasDocument(chat_contents, c)
              /\ DocIds(chat_contents') = DocIds(chat_contents)
              /\ FindOne(chat_contents', c).qa_pairs
                    = Append(FindOne(chat_contents, c).qa_pairs,
                             [question |-> messages'[m].content, response |-> Null,
                              response_id |-> m, branches |-> <<>>])
              /\ \A d \in DocIds(chat_contents) \ {c} :
                    FindOne(chat_contents', d) = FindOne(chat_contents, d) ]_vars

\* C23 witness: add_message just added the second QAPair of a document.
C23_Witness ==
    /\ last.op = "add_message" /\ last.status = 201
    /\ Len(QAPairsOf(last.chat_id)) = 2
    /\ QAPairsOf(last.chat_id)[2].response_id = last.message_id
    /\ QAPairsOf(last.chat_id)[1].response_id # last.message_id

\* ---------------------------------------------------------------------
\* Partial failure.  A handler that writes to both stores makes its
\* Content Store calls and its Record Store commit one after the other,
\* and any of them may raise (MongoDB or PostgreSQL unreachable, a
\* timeout).  The exception leaves the handler: what was already done in
\* the Content Store stays, the uncommitted Record Store session is
\* discarded, and the global handler answers 500.  Each action below is a
\* handler run up to the call named by `at`, which raises.

\* create_chat, lines 48-75: flush, insert_one, commit.
create_chat_fails(u, name, t, a, at) ==
    /\ at \in {"insert_one", "commit"}
    /\ LET c == next_chat_id IN
       /\ chat_contents' =
            IF at = "commit"
            THEN InsertOne(chat_contents,
                           [chat_id |-> c, parent_chat_id |-> Null,
                            parent_message_id |-> Null, qa_pairs |-> <<>>])
            ELSE chat_contents
       /\ next_chat_id' = c + 1
       /\ last' = Response("create_chat", u, c, Null, 500, NoBody)
    /\ UNCHANGED <<chat_records, conversations, messages, cache, next_msg_id,
                   inflight>>
    /\ UNCHANGED <<accounts, limiter>>

\* delete_chat, lines 201-225: the queries, commit, delete_one.
delete_chat_fails(u, c, at) ==
    /\ at \in {"commit", "delete_one"}
    /\ OwnedChat(c, u)
    /\ IF at = "commit" \/ (c \in DOMAIN conversations /\ MessagesOf(c) # {})
       THEN UNCHANGED <<chat_records, conversations>>
       ELSE /\ conversations' = Drop(conversations, c)
            /\ chat_records' = Drop(chat_records, c)
    /\ last' = Response("delete_chat", u, c, Null, 500, NoBody)
    /\ UNCHANGED <<messages, chat_contents, cache, next_chat_id, next_msg_id,
                   inflight>>
    /\ UNCHANGED <<accounts, limiter>>

\* add_message, lines 54-79: flush, update_one, commit.
add_message_fails(u, c, content, at) ==
    /\ at \in {"update_one", "commit"}
    /\ OwnedConversation(c, u)
    /\ LET m == next_msg_id IN
       /\ chat_contents' =
            IF at = "commit"
            THEN PushQAPair(chat_contents, c,
                            [question |-> content, response |-> Null,
                             response_id |-> m, branches |-> <<>>])
            ELSE chat_contents
       /\ next_msg_id' = m + 1
       /\ last' = Response("add_message", u, c, m, 500, NoBody)
    /\ UNCHANGED <<chat_records, conversations, messages, cache, next_chat_id,
                   inflight>>
    /\ UNCHANGED <<accounts, limiter>>

\* create_branch, lines 44-92: flush, insert_one, update_one, commit.
create_branch_fails(u, p, m, at) ==
    /\ at \in {"insert_one", "update_one", "commit"}
    /\ OwnedChat(p, u)
    /\ LET b == next_chat_id IN
       /\ chat_contents' =
            IF at = "insert_one" THEN chat_contents
            ELSE IF at = "update_one"
            THEN InsertOne(chat_contents, BranchContent(b, p, m))
            ELSE PushBranch(InsertOne(chat_contents, BranchContent(b, p, m)),
                            p, m, b)
       /\ next_chat_id' = b + 1
       /\ last' = Response("create_branch", u, p, m, 500, NoBody)
    /\ UNCHANGED <<chat_records, conversations, messages, cache, next_msg_id,
                   inflight>>
    /\ UNCHANGED <<accounts, limiter>>

FaultMaxChats == 2
FaultMaxMsgs == 1

\* The users on their own chats, every call completing or failing partway.
NextFaults ==
    \/ \E u \in Users :
            next_chat_id <= FaultMaxChats /\ create_chat(u, <<"root">>, "DIRECT", TRUE)
    \/ \E u \in Users, at \in {"insert_one", "commit"} :
            /\ next_chat_id <= FaultMaxChats
            /\ create_chat_fails(u, <<"root">>, "DIRECT", TRUE, at)
    \/ \E u \in Users : \E c \in ChatsOf(u) : delete_chat(u, c)
    \/ \E u \in Users, at \in {"commit", "delete_one"} :
            \E c \in ChatsOf(u) : delete_chat_fails(u, c, at)
    \/ \E u \in Users : \E c \in ChatsOf(u) :
            MsgBound(FaultMaxMsgs, u, c) /\ add_message(u, c, "hello")
    \/ \E u \in Users, at \in {"update_one", "commit"} : \E c \in ChatsOf(u) :
            MsgBound(FaultMaxMsgs, u, c) /\ add_message_fails(u, c, "hello", at)
    \/ \E u \in Users : \E p \in ChatsOf(u), m \in MsgArgs :
            ChatBound(FaultMaxChats, u, p) /\ create_branch(u, p, m)
    \/ \E u \in Users, at \in {"insert_one", "update_one", "commit"} :
            \E p \in ChatsOf(u), m \in MsgArgs :
                ChatBound(FaultMaxChats, u, p) /\ create_branch_fails(u, p, m, at)

SpecFaults == Init /\ [][NextFaults]_vars

\* C24: in every state, also after a handler failed partway, the chats
\* that have a document are exactly the chats that have a ChatRecord.
C24_DocumentIffRecord ==
    DocIds(chat_contents) = DOMAIN chat_records

\* C25: in every state, the parent_chat_id of every document that has one
\* is a chat that has a ChatRecord and a document.
C25_ParentStillThere ==
    \A i \in DOMAIN chat_contents :
        chat_contents[i].parent_chat_id # Null
            => /\ chat_contents[i].parent_chat_id \in DOMAIN chat_records
               /\ HasDocument(chat_contents, chat_contents[i].parent_chat_id)

\* The places <<document, position>> of the QAPairs that carry the id of
\* Message m in the document of m's conversation.
QAPairsFor(m) ==
    UNION { { <<i, k>> : k \in { k \in DOMAIN chat_contents[i].qa_pairs :
                                    chat_contents[i].qa_pairs[k].response_id = m } } :
            i \in { i \in DOMAIN chat_contents :
                        chat_contents[i].chat_id = messages[m].conversation_id } }

\* C26: in every state, also after add_message failed partway, every
\* QAPair's response_id is the id of a Message of the document's chat, and
\* every Message has exactly one QAPair with its id, in the document of
\* its conversation.
C26_QAPairIffMessage ==
    /\ \A i \in DOMAIN chat_contents :
        \A k \in DOMAIN chat_contents[i].qa_pairs :
            LET m == chat_contents[i].qa_pairs[k].response_id IN
            /\ m \in DOMAIN messages
            /\ messages[m].conversation_id = chat_contents[i].chat_id
    /\ \A m \in DOMAIN messages :
        Cardinality(QAPairsFor(m)) = 1

\* ---------------------------------------------------------------------
\* Ownership of branches.

RECURSIVE TreeNodeIds(_)
RECURSIVE TreeListIds(_)

\* The chat ids of the ChatRecords a tree of get_branch_tree was built from.
TreeNodeIds(node) == {node.chat_id} \cup TreeListIds(node.children)

TreeListIds(nodes) ==
    IF nodes = <<>> THEN {}
    ELSE TreeNodeIds(Head(nodes)) \cup TreeListIds(Tail(nodes))

rate_limit == 2
time_window == 3

MaxTime == 4
MaxDispatches == 4

Clients == {"ip1", "ip2"}

\* timestamps[-1]
LastOf(timestamps) == timestamps[Len(timestamps)]

\* The cleanup with timestamps[0] in place of timestamps[-1]: a client is
\* forgotten once its oldest request is time_window old.
CleanedByFirst(reqs, t) ==
    [ip \in {i \in DOMAIN reqs : t - reqs[i][1] < time_window} |-> reqs[ip]]

\* {ip: timestamps for ip, timestamps in self.requests.items()
\*      if current_time - timestamps[-1] < self.time_window}
Cleaned(reqs, t) ==
    [ip \in {i \in DOMAIN reqs : t - LastOf(reqs[i]) < time_window} |-> reqs[ip]]

Handled(ip, status) == [ip |-> ip, time |-> current_time, status |-> status]

\* dispatch that also records the time of a request it rejects.
dispatch_stamps_rejected(ip) ==
    /\ LET kept == Cleaned(requests, current_time) IN
       IF ip \in DOMAIN kept
       THEN IF Len(kept[ip]) >= rate_limit
            THEN /\ requests' = [kept EXCEPT ![ip] = Append(@, current_time)]
                 /\ handled' = Append(handled, Handled(ip, 429))
                 /\ last' = Response("dispatch", ip, Null, Null, 429, NoBody)
            ELSE /\ requests' = [kept EXCEPT ![ip] = Append(@, current_time)]
                 /\ handled' = Append(handled, Handled(ip, 200))
                 /\ last' = Response("dispatch", ip, Null, Null, 200, NoBody)
       ELSE /\ requests' = Put(kept, ip, <<current_time>>)
            /\ handled' = Append(handled, Handled(ip, 200))
            /\ last' = Response("dispatch", ip, Null, Null, 200, NoBody)
    /\ UNCHANGED <<current_time, chats, accounts>>

\* RateLimitMiddleware.dispatch for a request of client ip: status 429 is
\* the middleware's own answer, status 200 stands for call_next(request).
dispatch(ip) ==
    /\ LET kept == Cleaned(requests, current_time) IN
       IF ip \in DOMAIN kept
       THEN IF Len(kept[ip]) >= rate_limit
            THEN /\ requests' = kept
                 /\ handled' = Append(handled, Handled(ip, 429))
                 /\ last' = Response("dispatch", ip, Null, Null, 429, NoBody)
            ELSE /\ requests' = [kept EXCEPT ![ip] = Append(@, current_time)]
                 /\ handled' = Append(handled, Handled(ip, 200))
                 /\ last' = Response("dispatch", ip, Null, Null, 200, NoBody)
       ELSE /\ requests' = Put(kept, ip, <<current_time>>)
            /\ handled' = Append(handled, Handled(ip, 200))
            /\ last' = Response("dispatch", ip, Null, Null, 200, NoBody)
    /\ UNCHANGED <<current_time, chats, accounts>>

\* A second passes.
Tick ==
    /\ current_time < MaxTime
    /\ current_time' = current_time + 1
    /\ UNCHANGED <<requests, handled, last, chats, accounts>>

NextLimiter ==
    \/ \E ip \in Clients : Len(handled) < MaxDispatches /\ dispatch(ip)
    \/ Tick

SpecLimiter == Init /\ [][NextLimiter]_vars

\* The requests of client ip forwarded at a time t with from <= t < to.
ForwardedIn(log, ip, from, to) ==
    {k \in DOMAIN log : /\ log[k].ip = ip /\ log[k].status = 200
                        /\ from <= log[k].time /\ log[k].time < to}

\* C28: in every state, no interval of time_window seconds holds more than
\* rate_limit forwarded requests of one client (it is enough to look at
\* the intervals that begin at a forwarded request).
C28_AtMostLimitPerWindow ==
    \A k \in DOMAIN handled :
        handled[k].status = 200
            => Cardinality(ForwardedIn(handled, handled[k].ip, handled[k].time,
                                       handled[k].time + time_window)) <= rate_limit

\* C28 witness: a client had rate_limit requests forwarded and its next
\* request, in the same second, rejected.
C28_Witness ==
    /\ Len(handled) > rate_limit
    /\ handled[Len(handled)].status = 429
    /\ Cardinality(ForwardedIn(handled, handled[Len(handled)].ip,
                               current_time, current_time + 1)) = rate_limit

\* C29: every request answered with 429 came when at least rate_limit
\* requests of the same client had been forwarded within the time_window
\* seconds before it.
C29_RejectedOnlyOverLimit ==
    \A k \in DOMAIN handled :
        handled[k].status = 429
            => Cardinality(ForwardedIn(SubSeq(handled, 1, k - 1), handled[k].ip,
                                       handled[k].time - time_window + 1,
                                       handled[k].time + 1)) >= rate_limit

\* C30: a request of a client that had no request forwarded in the last
\* time_window seconds is forwarded, and leaves the client with a count of
\* one, whatever was rejected in between.
C30_ServedAfterWindow ==
    [][ Len(handled') = Len(handled) + 1
        => LET e == handled'[Len(handled')] IN
           ForwardedIn(handled, e.ip, e.time - time_window + 1, e.time + 1) = {}
                => /\ e.status = 200
                   /\ e.ip \in DOMAIN requests'
                   /\ requests'[e.ip] = <<e.time>> ]_vars

\* C30 witness: a client was blocked, had a request rejected after its
\* last forwarded one, and time_window seconds after that forwarded one is
\* served again with a count of one.
C30_Witness ==
    /\ Len(handled) >= rate_limit + 2
    /\ LET e == handled[Len(handled)] IN
       /\ e.status = 200
       /\ requests[e.ip] = <<e.time>>
       /\ \E k \in 1..(Len(handled) - 1) :
            /\ handled[k].ip = e.ip /\ handled[k].status = 429
            /\ \E j \in 1..(k - 1) :
                /\ handled[j].ip = e.ip /\ handled[j].status = 200
                /\ handled[j].time < handled[k].time
                /\ ForwardedIn(handled, e.ip, handled[j].time + 1, e.time) = {}
                /\ e.time >= handled[j].time + time_window

====
